---------------------------- MODULE Spec2Model ----------------------------
(***************************************************************************)
(* Model of the pugast template runtime (core/pug_template/pugast/         *)
(* runtime.go): the operator entry points of the funcmap and the builtins  *)
(* tryindex, _Range, extend and s.                                         *)
(*                                                                         *)
(* Host values are records tagged with their reflect.Kind.  Strings are    *)
(* sequences of byte codes, so that formatting (%d, %f) and the bytewise   *)
(* ordering of Go strings are computed and not assumed.  A float64 is      *)
(* either NaN, an infinity, or a finite value held as sign, numerator and  *)
(* denominator; the inputs are dyadic, hence exact, and a quotient that a  *)
(* float64 would round is held as the exact rational it rounds from.       *)
(* Go's int is 64 bits wide; the operands are small enough that no         *)
(* operation here reaches the width.                                       *)
(***************************************************************************)
EXTENDS Integers, Sequences, FiniteSets

VARIABLES
    op,      \* name of the funcmap entry called last, "none" before any call
    args,    \* the arguments of that call
    res,     \* what the call returned, or a panic
    heap,    \* contents of the caller-owned maps, slices and Arrays, by reference
    before   \* the heap as it was when the last call started

vars == <<op, args, res, heap, before>>

---------------------------------------------------------------------------
(* Bounds of the model. *)

MaxInt == 5          \* largest integer operand
MaxSubArgs == 2      \* longest argument list handed to the variadic sub
ArrLen == 3          \* length of the Array and of the host slice in the heap
MaxIndex == 4        \* largest index key handed to tryindex
MaxRange == 5        \* _Range arguments lie in -1..MaxRange
MaxSources == 2      \* longest list of sources handed to extend
MaxSArgs == 3        \* longest argument list handed to s

---------------------------------------------------------------------------
(* Strings: sequences of byte codes. *)

Abs(n) == IF n < 0 THEN -n ELSE n

Min(a, b) == IF a < b THEN a ELSE b

RECURSIVE GCD(_, _)
GCD(a, b) == IF b = 0 THEN a ELSE GCD(b, a % b)

\* "<nil>"
StrNoValue == <<60, 110, 105, 108, 62>>
\* "NaN", "+Inf", "-Inf"
StrNaN == <<78, 97, 78>>
StrPosInf == <<43, 73, 110, 102>>
StrNegInf == <<45, 73, 110, 102>>

\* Go's < on strings: bytewise lexicographic.
StrLt(a, b) ==
    \E i \in 1..(Min(Len(a), Len(b)) + 1) :
        /\ \A j \in 1..(i - 1) : a[j] = b[j]
        /\ \/ i > Len(a) /\ i <= Len(b)
           \/ i <= Len(a) /\ i <= Len(b) /\ a[i] < b[i]

\* The decimal digits of n >= 0.
RECURSIVE DecDigits(_)
DecDigits(n) ==
    IF n < 10 THEN <<48 + n>> ELSE DecDigits(n \div 10) \o <<48 + (n % 10)>>

\* fmt.Sprintf("%d", n)
FormatInt(n) == IF n < 0 THEN <<45>> \o DecDigits(-n) ELSE DecDigits(n)

---------------------------------------------------------------------------
(* float64. *)

NaN == [cls |-> "nan", neg |-> FALSE, num |-> 0, den |-> 1]

Inf(neg) == [cls |-> "inf", neg |-> neg, num |-> 0, den |-> 1]

\* The finite value (-1)^neg * num/den, den > 0; a zero keeps its sign.
Fin(neg, num, den) ==
    LET g == GCD(num, den)
    IN  [cls |-> "fin", neg |-> neg, num |-> num \div g, den |-> den \div g]

\* float64(n) for an integer n
FromInt(n) == Fin(n < 0, Abs(n), 1)

Signed(f) == IF f.neg THEN -f.num ELSE f.num

IsZero(f) == f.cls = "fin" /\ f.num = 0

\* -f
FNeg(f) == IF f.cls = "nan" THEN NaN ELSE [f EXCEPT !.neg = ~f.neg]

\* a + b
FAdd(a, b) ==
    IF a.cls = "nan" \/ b.cls = "nan" THEN NaN
    ELSE IF a.cls = "inf"
         THEN IF b.cls = "inf" /\ b.neg # a.neg THEN NaN ELSE a
    ELSE IF b.cls = "inf" THEN b
    ELSE LET s == Signed(a) * b.den + Signed(b) * a.den
         IN  IF s = 0 THEN Fin(a.neg /\ b.neg, 0, 1)
             ELSE Fin(s < 0, Abs(s), a.den * b.den)

\* a - b
FSub(a, b) == FAdd(a, FNeg(b))

\* a * b
FMul(a, b) ==
    IF a.cls = "nan" \/ b.cls = "nan" THEN NaN
    ELSE IF (a.cls = "inf" /\ IsZero(b)) \/ (b.cls = "inf" /\ IsZero(a)) THEN NaN
    ELSE IF a.cls = "inf" \/ b.cls = "inf" THEN Inf(a.neg # b.neg)
    ELSE Fin(a.neg # b.neg, a.num * b.num, a.den * b.den)

\* a / b: a zero divisor gives an infinity or NaN, never a fault
FQuo(a, b) ==
    IF a.cls = "nan" \/ b.cls = "nan" THEN NaN
    ELSE IF a.cls = "inf"
         THEN IF b.cls = "inf" THEN NaN ELSE Inf(a.neg # b.neg)
    ELSE IF b.cls = "inf" THEN Fin(a.neg # b.neg, 0, 1)
    ELSE IF IsZero(b)
         THEN IF IsZero(a) THEN NaN ELSE Inf(a.neg # b.neg)
    ELSE Fin(a.neg # b.neg, a.num * b.den, a.den * b.num)

\* a == b (NaN equals nothing, -0 equals +0)
FEq(a, b) ==
    /\ a.cls # "nan" /\ b.cls # "nan"
    /\ a.cls = b.cls
    /\ IF a.cls = "inf" THEN a.neg = b.neg
       ELSE Signed(a) * b.den = Signed(b) * a.den

\* a < b (NaN is below nothing and nothing is below it)
FLt(a, b) ==
    /\ a.cls # "nan" /\ b.cls # "nan"
    /\ IF a.cls = "inf" THEN a.neg /\ ~(b.cls = "inf" /\ b.neg)
       ELSE IF b.cls = "inf" THEN ~b.neg
       ELSE Signed(a) * b.den < Signed(b) * a.den

\* The six digits after the decimal point.
Pad6(n) == [i \in 1..6 |-> 48 + ((n \div (10 ^ (6 - i))) % 10)]

\* fmt.Sprintf("%f", f): six decimals, round half to even; "NaN", "+Inf", "-Inf"
FormatFloat(f) ==
    IF f.cls = "nan" THEN StrNaN
    ELSE IF f.cls = "inf" THEN (IF f.neg THEN StrNegInf ELSE StrPosInf)
    ELSE LET q == (f.num * 1000000) \div f.den
             r == (f.num * 1000000) % f.den
             scaled == IF 2 * r > f.den \/ (2 * r = f.den /\ q % 2 = 1)
                       THEN q + 1 ELSE q
         IN  (IF f.neg THEN <<45>> ELSE <<>>)
             \o DecDigits(scaled \div 1000000) \o <<46>> \o Pad6(scaled % 1000000)

\* int(f) for a finite f: truncation toward zero
TruncInt(f) == IF f.neg THEN -(f.num \div f.den) ELSE f.num \div f.den

---------------------------------------------------------------------------
(* Host values, tagged with their reflect.Kind. *)

Nil == [kind |-> "Invalid"]
BoolV(b) == [kind |-> "Bool", b |-> b]
IntV(n) == [kind |-> "Int", n |-> n]
Int64V(n) == [kind |-> "Int64", n |-> n]
UintV(n) == [kind |-> "Uint", n |-> n]
FloatV(f) == [kind |-> "Float64", f |-> f]
StringV(s) == [kind |-> "String", s |-> s]
\* a host map[interface{}]interface{}, a host slice, a *Array: by reference
MapV(r) == [kind |-> "Map", ref |-> r]
SliceV(r) == [kind |-> "Slice", ref |-> r]
ArrayV(r) == [kind |-> "Ptr", ref |-> r]

\* A run-time panic of the Go program.
Panic(msg) == [kind |-> "panic", msg |-> msg]

IsPanic(v) == v.kind = "panic"

\* case reflect.Int, reflect.Int32, reflect.Int64, reflect.Int16, reflect.Int8
IsInt(v) == v.kind \in {"Int", "Int8", "Int16", "Int32", "Int64"}

\* case reflect.Float32, reflect.Float64
IsFloat(v) == v.kind \in {"Float32", "Float64"}

\* the literal "no value" text returned by sub, mul, quo, rem, minus, plus
NoValue == StringV(StrNoValue)

---------------------------------------------------------------------------
(* The operator entry points. *)

\* vx.Int() % vy.Int(): Go's remainder takes the sign of the dividend
GoRem(a, b) == IF a < 0 THEN -(Abs(a) % Abs(b)) ELSE a % Abs(b)

\* inc truncating the float before adding one
runtimeIncTruncFirst(x) ==
    IF IsInt(x) THEN {IntV(x.n + 1)}
    ELSE IF IsFloat(x)
         THEN IF x.f.cls = "fin" THEN {IntV(TruncInt(x.f) + 1)}
              ELSE {[kind |-> "Int", impl |-> "MinInt64"], IntV(0),
                    [kind |-> "Int", impl |-> "MaxInt64"]}
    ELSE {IntV(0)}

\* runtimeInc returns a Go int.  int(f) of a NaN or an infinity is
\* implementation-dependent: the result is one of the values a build produces.
runtimeInc(x) ==
    IF IsInt(x) THEN {IntV(x.n + 1)}
    ELSE IF IsFloat(x)
         THEN IF x.f.cls = "fin" THEN {IntV(TruncInt(FAdd(x.f, FromInt(1))))}
              ELSE {[kind |-> "Int", impl |-> "MinInt64"], IntV(0),
                    [kind |-> "Int", impl |-> "MaxInt64"]}
    ELSE {IntV(0)}

\* The int/float matrix of runtimeSub: x - y.
SubKinds(x, y) ==
    IF IsInt(x) /\ IsInt(y) THEN IntV(x.n - y.n)
    ELSE IF IsInt(x) /\ IsFloat(y) THEN FloatV(FSub(FromInt(x.n), y.f))
    ELSE IF IsFloat(x) /\ IsInt(y) THEN FloatV(FSub(x.f, FromInt(y.n)))
    ELSE IF IsFloat(x) /\ IsFloat(y) THEN FloatV(FSub(x.f, y.f))
    ELSE NoValue

\* sub taking its operands in the order given: i[0] - i[1]
runtimeSubInOrder(i) ==
    IF Len(i) = 0 THEN Panic("index out of range")
    ELSE SubKinds(i[1], IF Len(i) > 1 THEN i[2] ELSE IntV(0))

\* runtimeSub(i ...interface{}): y is i[0], x is i[1] or 0; returns x - y.
\* With no argument i[0] is out of range.
runtimeSub(i) ==
    IF Len(i) = 0 THEN Panic("index out of range")
    ELSE SubKinds(IF Len(i) > 1 THEN i[2] ELSE IntV(0), i[1])

\* runtimeMul with add's sentinel in place of the "no value" text
runtimeMulNil(x, y) ==
    IF IsInt(x) /\ IsInt(y) THEN IntV(x.n * y.n)
    ELSE IF IsInt(x) /\ IsFloat(y) THEN FloatV(FMul(FromInt(x.n), y.f))
    ELSE IF IsFloat(x) /\ IsInt(y) THEN FloatV(FMul(x.f, FromInt(y.n)))
    ELSE IF IsFloat(x) /\ IsFloat(y) THEN FloatV(FMul(x.f, y.f))
    ELSE Nil

runtimeMul(x, y) ==
    IF IsInt(x) /\ IsInt(y) THEN IntV(x.n * y.n)
    ELSE IF IsInt(x) /\ IsFloat(y) THEN FloatV(FMul(FromInt(x.n), y.f))
    ELSE IF IsFloat(x) /\ IsInt(y) THEN FloatV(FMul(x.f, FromInt(y.n)))
    ELSE IF IsFloat(x) /\ IsFloat(y) THEN FloatV(FMul(x.f, y.f))
    ELSE NoValue

runtimeQuo(x, y) ==
    IF IsInt(x) /\ IsInt(y) THEN FloatV(FQuo(FromInt(x.n), FromInt(y.n)))
    ELSE IF IsInt(x) /\ IsFloat(y) THEN FloatV(FQuo(FromInt(x.n), y.f))
    ELSE IF IsFloat(x) /\ IsInt(y) THEN FloatV(FQuo(x.f, FromInt(y.n)))
    ELSE IF IsFloat(x) /\ IsFloat(y) THEN FloatV(FQuo(x.f, y.f))
    ELSE NoValue

\* The integer remainder by zero is a run-time panic.
runtimeRem(x, y) ==
    IF IsInt(x) /\ IsInt(y)
    THEN IF y.n = 0 THEN Panic("integer divide by zero")
         ELSE IntV(GoRem(x.n, y.n))
    ELSE NoValue

\* -vx.Int() is returned as it is, an int64
runtimeMinus(x) ==
    IF IsInt(x) THEN Int64V(-x.n)
    ELSE IF IsFloat(x) THEN FloatV(FNeg(x.f))
    ELSE NoValue

runtimePlus(x) ==
    IF IsInt(x) THEN IntV(x.n)
    ELSE IF IsFloat(x) THEN FloatV(x.f)
    ELSE NoValue

\* case reflect.Int, ...: of runtimeEql
EqlInt(x, y) ==
    IF IsInt(y) THEN x.n = y.n
    ELSE IF IsFloat(y) THEN FEq(FromInt(x.n), y.f)
    ELSE IF y.kind = "String" THEN FormatInt(x.n) = y.s
    ELSE FALSE

\* case reflect.Float32, reflect.Float64: of runtimeEql
EqlFloat(x, y) ==
    IF IsInt(y) THEN FEq(x.f, FromInt(y.n))
    ELSE IF IsFloat(y) THEN FEq(x.f, y.f)
    ELSE IF y.kind = "String" THEN FormatFloat(x.f) = y.s
    ELSE FALSE

\* the string case without its numeric rows
EqlStringOnly(x, y) == y.kind = "String" /\ x.s = y.s

\* case reflect.String: of runtimeEql
EqlString(x, y) ==
    IF IsInt(y) THEN x.s = FormatInt(y.n)
    ELSE IF IsFloat(y) THEN x.s = FormatFloat(y.f)
    ELSE IF y.kind = "String" THEN x.s = y.s
    ELSE FALSE

\* the bool case comparing the boolean with the integer's truth value
EqlBoolTruthy(x, y) ==
    IF IsInt(y) THEN x.b = (y.n # 0)
    ELSE IF y.kind = "Bool" THEN x.b = y.b
    ELSE FALSE

\* case reflect.Bool: of runtimeEql
EqlBool(x, y) ==
    IF IsInt(y) THEN x.b /\ y.n # 0
    ELSE IF y.kind = "Bool" THEN x.b = y.b
    ELSE FALSE

runtimeEql(x, y) ==
    IF IsInt(x) THEN EqlInt(x, y)
    ELSE IF IsFloat(x) THEN EqlFloat(x, y)
    ELSE IF x.kind = "String" THEN EqlString(x, y)
    ELSE IF x.kind = "Bool" THEN EqlBool(x, y)
    ELSE FALSE

runtimeLss(x, y) ==
    IF IsInt(x)
    THEN IF IsInt(y) THEN x.n < y.n
         ELSE IF IsFloat(y) THEN FLt(FromInt(x.n), y.f)
         ELSE IF y.kind = "String" THEN StrLt(FormatInt(x.n), y.s)
         ELSE FALSE
    ELSE IF IsFloat(x)
    THEN IF IsInt(y) THEN FLt(x.f, FromInt(y.n))
         ELSE IF IsFloat(y) THEN FLt(x.f, y.f)
         ELSE IF y.kind = "String" THEN StrLt(FormatFloat(x.f), y.s)
         ELSE FALSE
    ELSE IF x.kind = "String"
    THEN IF IsInt(y) THEN StrLt(x.s, FormatInt(y.n))
         ELSE IF IsFloat(y) THEN StrLt(x.s, FormatFloat(y.f))
         ELSE IF y.kind = "String" THEN StrLt(x.s, y.s)
         ELSE FALSE
    ELSE FALSE

\* gtr written on its own, as y < x
runtimeGtrSwapped(x, y) == runtimeLss(y, x)

\* gtr without its equality test
runtimeGtrNotLss(x, y) == ~runtimeLss(x, y)

runtimeGtr(x, y) == ~runtimeLss(x, y) /\ ~runtimeEql(x, y)

\* The kind pairs runtimeEql decides (its matrix) and those runtimeLss decides.
InEqlMatrix(x, y) ==
    \/ (IsInt(x) \/ IsFloat(x) \/ x.kind = "String")
       /\ (IsInt(y) \/ IsFloat(y) \/ y.kind = "String")
    \/ x.kind = "Bool" /\ (IsInt(y) \/ y.kind = "Bool")

InLssMatrix(x, y) ==
    /\ IsInt(x) \/ IsFloat(x) \/ x.kind = "String"
    /\ IsInt(y) \/ IsFloat(y) \/ y.kind = "String"

---------------------------------------------------------------------------
(* The builtins tryindex, _Range and extend. *)

MapRefs == {"m1", "m2", "m3"}

\* A nil map[interface{}]interface{}: it has no entry, ranging over it does
\* nothing, and an assignment to an entry of it is a run-time panic.
NilMapRefs == {"mnil"}

KeyA == StringV(<<97>>)
KeyB == StringV(<<98>>)

\* Number(n), the pugast value convert makes of an integer: a float64
Number(n) == [kind |-> "Float64", f |-> FromInt(n), ty |-> "Number"]

\* convert(res) of a []int: a fresh Array of the converted elements
convert(ints) == [kind |-> "Ptr", items |-> [i \in DOMAIN ints |-> Number(ints[i])]]

\* The values that implement Object: here the *Array
IsObject(v) == v.kind = "Ptr"

\* convert(key).String()
KeyString(key) ==
    IF IsInt(key) THEN FormatInt(key.n)
    ELSE IF key.kind = "String" THEN key.s
    ELSE <<>>

\* obj.Field(name): the member of that name, left opaque
Field(obj, name) == [kind |-> "Field", ref |-> obj.ref, name |-> name]

\* indirect(reflect.ValueOf(obj)) of a non-pointer is the value itself
indirect(obj) == obj

\* arr.items[idx]: indexing a slice outside 0..len-1 is a run-time panic
ItemAt(items, idx) ==
    IF 0 <= idx /\ idx < Len(items) THEN items[idx + 1]
    ELSE Panic("index out of range")

\* The reflective fallback of tryindex (lines 43 to 51).
tryindexReflect(obj, key, h) ==
    LET vo == indirect(obj)
    IN  IF ~IsInt(key) THEN Panic("reflect: call of reflect.Value.Int")
        ELSE IF vo.kind = "Invalid" THEN Nil
        ELSE IF vo.kind \notin {"Slice", "Map", "String"}
             THEN Panic("reflect: call of reflect.Value.Len")
        ELSE LET n == IF vo.kind = "String" THEN Len(vo.s)
                      ELSE IF vo.kind = "Map" THEN Cardinality(DOMAIN h[vo.ref])
                      ELSE Len(h[vo.ref])
             IN  IF n > key.n
                 THEN IF vo.kind = "Map"
                      THEN Panic("reflect: call of reflect.Value.Index on map Value")
                      ELSE IF key.n < 0 THEN Panic("reflect: index out of range")
                      ELSE IF vo.kind = "String"
                           THEN [kind |-> "Uint8", n |-> vo.s[key.n + 1]]
                      ELSE h[vo.ref][key.n + 1]
                 ELSE Nil

\* funcmap["tryindex"]: key.(int) holds of a Go int only
tryindex(obj, key, h) ==
    IF obj.kind = "Ptr" /\ key.kind = "Int" THEN ItemAt(h[obj.ref], key.n)
    ELSE IF IsObject(obj) THEN Field(obj, KeyString(key))
    ELSE tryindexReflect(obj, key, h)

\* for i := o; i < m; i++ { res = append(res, i) }
RECURSIVE RangeLoop(_, _)
RangeLoop(i, m) == IF i < m THEN <<i>> \o RangeLoop(i + 1, m) ELSE <<>>

\* _Range with a default start of 1
RangeFromOne(a) ==
    IF Len(a) = 1 THEN convert(RangeLoop(1, a[1]))
    ELSE IF Len(a) < 2 THEN Panic("index out of range")
    ELSE convert(RangeLoop(a[1], a[2]))

\* funcmap["_Range"](args ...int): with no argument args[1] is out of range
Range(a) ==
    IF Len(a) = 1 THEN convert(RangeLoop(0, a[1]))
    ELSE IF Len(a) < 2 THEN Panic("index out of range")
    ELSE convert(RangeLoop(a[1], a[2]))

\* for k, v := range o { m[k] = v }, on the heap h
extendOne(h, m, o) ==
    [h EXCEPT ![m] = [k \in DOMAIN h[m] \cup DOMAIN h[o] |->
                        IF k \in DOMAIN h[o] THEN h[o][k] ELSE h[m][k]]]

\* for _, o := range on { ... }, from the i-th source on
RECURSIVE extendFrom(_, _, _, _)
extendFrom(h, m, on, i) ==
    IF i > Len(on) THEN h ELSE extendFrom(extendOne(h, m, on[i]), m, on, i + 1)

\* m[k] = v with m a nil map: the first entry of a source panics, before
\* anything is written
extendPanics(m, on, h) ==
    m \in NilMapRefs /\ \E i \in DOMAIN on : DOMAIN h[on[i]] # {}

\* funcmap["extend"](deep, m, on...): what it returns, m itself, and the heap
\* it leaves; deep is not read
extend(deep, m, on, h) ==
    IF extendPanics(m, on, h)
    THEN [res |-> Panic("assignment to entry in nil map"), heap |-> h]
    ELSE [res |-> MapV(m), heap |-> extendFrom(h, m, on, 1)]

---------------------------------------------------------------------------
(* The builtin s. *)

\* unicode.IsSpace on the ASCII bytes: tab, newline, vertical tab, form feed,
\* carriage return, space
IsSpace(c) == c \in {9, 10, 11, 12, 13, 32}

RECURSIVE TrimLeft(_)
TrimLeft(str) ==
    IF str # <<>> /\ IsSpace(Head(str)) THEN TrimLeft(Tail(str)) ELSE str

RECURSIVE TrimRight(_)
TrimRight(str) ==
    IF str # <<>> /\ IsSpace(str[Len(str)])
    THEN TrimRight(SubSeq(str, 1, Len(str) - 1)) ELSE str

\* strings.TrimSpace(res)
TrimSpace(str) == TrimRight(TrimLeft(str))

\* convert(s).String(): a string is itself, an integer its decimal digits
ObjString(v) == KeyString(v)

\* for _, s := range l { if s != nil { res += convert(s).String() } }
RECURSIVE sLoop(_, _, _)
sLoop(l, i, acc) ==
    IF i > Len(l) THEN acc
    ELSE sLoop(l, i + 1, IF l[i] # Nil THEN acc \o ObjString(l[i]) ELSE acc)

\* s returning a result of one byte as well
funcmapSFromOne(l) ==
    LET acc == sLoop(l, 1, <<>>)
    IN  IF Len(acc) > 0 THEN <<32>> \o TrimSpace(acc) ELSE <<>>

\* funcmap["s"](l ...interface{}) string
funcmapS(l) ==
    LET acc == sLoop(l, 1, <<>>)
    IN  IF Len(acc) > 1 THEN <<32>> \o TrimSpace(acc) ELSE <<>>

---------------------------------------------------------------------------
(* Inputs. *)

\* All sequences over S of length at most n.
RECURSIVE SeqsUpTo(_, _)
SeqsUpTo(S, n) ==
    IF n = 0 THEN {<<>>}
    ELSE LET shorter == SeqsUpTo(S, n - 1)
         IN  shorter \cup {Append(s, x) : s \in {t \in shorter : Len(t) = n - 1}, x \in S}

Half == Fin(FALSE, 1, 2)

FloatInputs ==
    {FromInt(0), Fin(TRUE, 0, 1), FromInt(1), FromInt(MaxInt), Half, FNeg(Half),
     Fin(TRUE, 3, 2), NaN, Inf(FALSE), Inf(TRUE)}

IntInputs == (-2)..MaxInt

StringInputs ==
    {<<>>, <<97>>, StrNoValue, StrNaN}
      \cup {FormatInt(n) : n \in (-1)..MaxInt}
      \cup {FormatFloat(f) : f \in {FromInt(MaxInt), Half, Fin(TRUE, 0, 1)}}

\* The operands handed to the operator entry points.
Operands ==
    {Nil, BoolV(TRUE), BoolV(FALSE), Int64V(1), UintV(1), MapV("m1"), SliceV("sl"),
     ArrayV("arr")}
      \cup {IntV(n) : n \in IntInputs}
      \cup {FloatV(f) : f \in FloatInputs}
      \cup {StringV(s) : s \in StringInputs}

\* The operands of the operator calls interleaved with the heap builtins.
HeapOperands == {MapV("m1"), ArrayV("arr")}

Receivers == {ArrayV("arr"), SliceV("sl"), MapV("m2"), Nil}

IndexKeys ==
    {IntV(n) : n \in (-1)..MaxIndex} \cup {Int64V(1), StringV(<<97>>), Nil}

\* The arguments handed to s.
SOperands ==
    {Nil, IntV(1), StringV(<<>>), StringV(<<97>>), StringV(<<98>>), StringV(<<32>>),
     StringV(<<97, 32>>)}

InitHeap ==
    [r \in MapRefs \cup NilMapRefs \cup {"arr", "sl"} |->
        IF r = "m1" THEN [k \in {KeyA} |-> IntV(1)]
        ELSE IF r = "m2" THEN [k \in {KeyA, KeyB} |-> IF k = KeyA THEN IntV(2) ELSE IntV(3)]
        ELSE IF r \in {"m3"} \cup NilMapRefs THEN <<>>
        ELSE IF r = "arr" THEN [i \in 1..ArrLen |-> Number(10 * i)]
        ELSE [i \in 1..ArrLen |-> IntV(10 * i)]]

NoResult == [kind |-> "none"]

---------------------------------------------------------------------------
(* The state machine: one action per funcmap entry. *)

Init ==
    /\ op = "none"
    /\ args = <<>>
    /\ res = NoResult
    /\ heap = InitHeap
    /\ before = InitHeap

\* The record of a call that only reads its arguments.
Returns(name, a, r) ==
    /\ op' = name
    /\ args' = a
    /\ res' = r
    /\ UNCHANGED heap

OpInc(S) == \E x \in S : \E r \in runtimeInc(x) : Returns("inc", <<x>>, r)
OpSub(S) == \E a \in SeqsUpTo(S, MaxSubArgs) : Returns("sub", a, runtimeSub(a))
OpMul(S) == \E x, y \in S : Returns("mul", <<x, y>>, runtimeMul(x, y))
OpQuo(S) == \E x, y \in S : Returns("quo", <<x, y>>, runtimeQuo(x, y))
OpRem(S) == \E x, y \in S : Returns("rem", <<x, y>>, runtimeRem(x, y))
OpMinus(S) == \E x \in S : Returns("minus", <<x>>, runtimeMinus(x))
OpPlus(S) == \E x \in S : Returns("plus", <<x>>, runtimePlus(x))
OpEql(S) == \E x, y \in S : Returns("eql", <<x, y>>, BoolV(runtimeEql(x, y)))
OpLss(S) == \E x, y \in S : Returns("lss", <<x, y>>, BoolV(runtimeLss(x, y)))
OpGtr(S) == \E x, y \in S : Returns("gtr", <<x, y>>, BoolV(runtimeGtr(x, y)))

\* The operator calls of a render, each on its own operands: no call depends
\* on an earlier one, so each is taken from the initial state.
Inc == op = "none" /\ before' = heap /\ OpInc(Operands)
Sub == op = "none" /\ before' = heap /\ OpSub(Operands)
Mul == op = "none" /\ before' = heap /\ OpMul(Operands)
Quo == op = "none" /\ before' = heap /\ OpQuo(Operands)
Rem == op = "none" /\ before' = heap /\ OpRem(Operands)
Minus == op = "none" /\ before' = heap /\ OpMinus(Operands)
Plus == op = "none" /\ before' = heap /\ OpPlus(Operands)
Eql == op = "none" /\ before' = heap /\ OpEql(Operands)
Lss == op = "none" /\ before' = heap /\ OpLss(Operands)
Gtr == op = "none" /\ before' = heap /\ OpGtr(Operands)

\* s, called once on its own arguments like the operators.
SCall ==
    /\ op = "none"
    /\ before' = heap
    /\ \E l \in SeqsUpTo(SOperands, MaxSArgs) : Returns("s", l, StringV(funcmapS(l)))

NextOps ==
    Inc \/ Sub \/ Mul \/ Quo \/ Rem \/ Minus \/ Plus \/ Eql \/ Lss \/ Gtr \/ SCall

SpecOps == Init /\ [][NextOps]_vars

\* The builtins that receive maps and arrays, called in any order on the same
\* heap, interleaved with operator calls on those maps and arrays.
Tryindex ==
    \E obj \in Receivers, key \in IndexKeys :
        /\ before' = heap
        /\ Returns("tryindex", <<obj, key>>, tryindex(obj, key, heap))

RangeCall ==
    \E a \in SeqsUpTo((-1)..MaxRange, 2) :
        /\ before' = heap
        /\ Returns("_Range", [i \in DOMAIN a |-> IntV(a[i])], Range(a))

Extend ==
    \E deep \in BOOLEAN, m \in MapRefs \cup NilMapRefs,
       on \in SeqsUpTo(MapRefs \cup NilMapRefs, MaxSources) :
        /\ op' = "extend"
        /\ args' = <<BoolV(deep), MapV(m)>> \o [i \in DOMAIN on |-> MapV(on[i])]
        /\ res' = extend(deep, m, on, heap).res
        /\ before' = heap
        /\ heap' = extend(deep, m, on, heap).heap

IncHeap == before' = heap /\ OpInc(HeapOperands)
SubHeap == before' = heap /\ OpSub(HeapOperands)
MulHeap == before' = heap /\ OpMul(HeapOperands)
QuoHeap == before' = heap /\ OpQuo(HeapOperands)
RemHeap == before' = heap /\ OpRem(HeapOperands)
MinusHeap == before' = heap /\ OpMinus(HeapOperands)
PlusHeap == before' = heap /\ OpPlus(HeapOperands)
EqlHeap == before' = heap /\ OpEql(HeapOperands)
LssHeap == before' = heap /\ OpLss(HeapOperands)
GtrHeap == before' = heap /\ OpGtr(HeapOperands)

Next ==
    \/ Tryindex \/ RangeCall \/ Extend
    \/ IncHeap \/ SubHeap \/ MulHeap \/ QuoHeap \/ RemHeap
    \/ MinusHeap \/ PlusHeap \/ EqlHeap \/ LssHeap \/ GtrHeap

Spec == Init /\ [][Next]_vars

---------------------------------------------------------------------------
(* Properties. *)

OperatorNames ==
    {"inc", "sub", "mul", "quo", "rem", "minus", "plus", "eql", "lss", "gtr"}

IsNum(v) == IsInt(v) \/ IsFloat(v)

IsScalarKind(v) == IsInt(v) \/ IsFloat(v) \/ v.kind = "String"

MaxOf(S) == CHOOSE i \in S : \A j \in S : j <= i

\* C1: tryindex of an Array with an integer key returns the element at that
\* index when 0 <= key < length, and Nil, without a panic, for every other key.
C1_ArrayIndexTotal ==
    (op = "tryindex" /\ args[1].kind = "Ptr" /\ args[2].kind = "Int") =>
        LET items == before[args[1].ref]
            idx == args[2].n
        IN  res = IF 0 <= idx /\ idx < Len(items) THEN items[idx + 1] ELSE Nil

\* C2: every operator entry point returns a value and never panics, whatever
\* the kinds and values of its operands, rem by the integer 0 and sub with one
\* or no operand included.
C2_OperatorsNeverPanic == op \in OperatorNames => ~IsPanic(res)

\* C3 as stated: for operands whose kinds lie outside both the eql matrix and
\* the lss matrix, gtr is false.
C3_GtrFalseOutsideMatrices ==
    (op = "gtr" /\ ~InEqlMatrix(args[1], args[2]) /\ ~InLssMatrix(args[1], args[2]))
        => res = BoolV(FALSE)

\* C3 amended: for operands whose kinds lie outside both the eql matrix and
\* the lss matrix, gtr is true, lss and eql both being false there.
C3_GtrTrueOutsideMatrices ==
    (op = "gtr" /\ ~InEqlMatrix(args[1], args[2]) /\ ~InLssMatrix(args[1], args[2]))
        => res = BoolV(TRUE)

C3_Witness == op = "gtr" /\ args = <<IntV(5), BoolV(TRUE)>> /\ res = BoolV(TRUE)

\* C4: for operands of any kinds gtr(x, y) is (not lss(x, y)) and (not
\* eql(x, y)), and at most one of lss, eql and gtr is true of a pair.
C4_GtrDerivedAndExclusive ==
    /\ op = "gtr" =>
         res = BoolV(~runtimeLss(args[1], args[2]) /\ ~runtimeEql(args[1], args[2]))
    /\ op \in {"lss", "eql", "gtr"} =>
         LET l == runtimeLss(args[1], args[2])
             e == runtimeEql(args[1], args[2])
             g == runtimeGtr(args[1], args[2])
         IN  ~(l /\ e) /\ ~(l /\ g) /\ ~(e /\ g)

C4_Witness == op = "gtr" /\ args = <<IntV(2), StringV(<<49>>)>> /\ res = BoolV(TRUE)

\* C5: eql is symmetric over the integer, float and string kinds, and
\* eql(5, "5") and eql("5", 5) are both true.
C5_EqlSymmetric ==
    /\ (op = "eql" /\ IsScalarKind(args[1]) /\ IsScalarKind(args[2]))
         => res = BoolV(runtimeEql(args[2], args[1]))
    /\ (op = "eql" /\ args \in {<<IntV(5), StringV(<<53>>)>>, <<StringV(<<53>>), IntV(5)>>})
         => res = BoolV(TRUE)

C5_Witness == op = "eql" /\ args = <<StringV(<<53>>), IntV(5)>> /\ res = BoolV(TRUE)

\* C6 as stated: eql of a boolean b and an integer n is true exactly when n is
\* nonzero, and eql of an integer and a boolean, in that order, is false.
C6_BoolIntIffNonzero ==
    /\ (op = "eql" /\ args[1].kind = "Bool" /\ IsInt(args[2]))
         => res = BoolV(args[2].n # 0)
    /\ (op = "eql" /\ IsInt(args[1]) /\ args[2].kind = "Bool")
         => res = BoolV(FALSE)

\* C6 amended: eql of a boolean b and an integer n is true exactly when b is
\* true and n is nonzero, and eql of an integer and a boolean, in that order,
\* is false.
C6_BoolIntIffTrueAndNonzero ==
    /\ (op = "eql" /\ args[1].kind = "Bool" /\ IsInt(args[2]))
         => res = BoolV(args[1].b /\ args[2].n # 0)
    /\ (op = "eql" /\ IsInt(args[1]) /\ args[2].kind = "Bool")
         => res = BoolV(FALSE)

C6_Witness == op = "eql" /\ args = <<BoolV(FALSE), IntV(1)>> /\ res = BoolV(FALSE)

\* The operands runtimeSub reads: i[0] and, when given, i[1].
SubOperands == {args[i] : i \in 1..Min(2, Len(args))}

\* The integer kinds of a host value, signed and unsigned.
IsInteger(v) ==
    IsInt(v) \/ v.kind \in {"Uint", "Uint8", "Uint16", "Uint32", "Uint64", "Uintptr"}

IsNumber(v) == IsInteger(v) \/ IsFloat(v)

\* C7 as stated: sub, mul and quo return the "no value" text, never Nil,
\* exactly when an operand is neither an integer nor a float; rem returns it
\* exactly when the operands are not two integers; sub and mul of two integers
\* return an integer and quo of two numbers, two integers included, returns a
\* float.  An integer is a value of any integer kind, signed or unsigned.
C7_SentinelAndResultKinds ==
    /\ op = "sub" =>
         /\ res = NoValue <=> \E v \in SubOperands : ~IsNumber(v)
         /\ res # Nil
         /\ (Len(args) > 0 /\ \A v \in SubOperands : IsInteger(v)) => res.kind = "Int"
    /\ op \in {"mul", "quo"} =>
         /\ res = NoValue <=> (~IsNumber(args[1]) \/ ~IsNumber(args[2]))
         /\ res # Nil
    /\ (op = "mul" /\ IsInteger(args[1]) /\ IsInteger(args[2])) => res.kind = "Int"
    /\ (op = "quo" /\ IsNumber(args[1]) /\ IsNumber(args[2])) => res.kind = "Float64"
    /\ op = "rem" =>
         /\ res = NoValue <=> ~(IsInteger(args[1]) /\ IsInteger(args[2]))
         /\ res # Nil

\* C7 amended: sub, mul and quo return the "no value" text, never Nil, exactly
\* when an operand is neither a signed integer nor a float, an unsigned integer
\* being such an operand; rem returns it exactly when the operands are not two
\* signed integers; sub and mul of two signed integers return an integer and
\* quo of two numbers, two signed integers included, returns a float.
C7_SentinelUnlessSignedOrFloat ==
    /\ op = "sub" =>
         /\ res = NoValue <=> \E v \in SubOperands : ~IsNum(v)
         /\ res # Nil
         /\ (Len(args) > 0 /\ \A v \in SubOperands : IsInt(v)) => res.kind = "Int"
    /\ op \in {"mul", "quo"} =>
         /\ res = NoValue <=> (~IsNum(args[1]) \/ ~IsNum(args[2]))
         /\ res # Nil
    /\ (op = "mul" /\ IsInt(args[1]) /\ IsInt(args[2])) => res.kind = "Int"
    /\ (op = "quo" /\ IsNum(args[1]) /\ IsNum(args[2])) => res.kind = "Float64"
    /\ op = "rem" =>
         /\ res = NoValue <=> ~(IsInt(args[1]) /\ IsInt(args[2]))
         /\ res # Nil

C7_Witness == op = "mul" /\ args = <<UintV(1), UintV(1)>> /\ res = NoValue

\* C8: _Range(end) and _Range(start, end) return the Array of the integers
\* start, start + 1, ..., end - 1 in that order, start being 0 when only end
\* is given; the Array is empty when end <= start.
C8_RangeIsHalfOpenInterval ==
    (op = "_Range" /\ Len(args) \in {1, 2}) =>
        LET start == IF Len(args) = 1 THEN 0 ELSE args[1].n
            end == args[Len(args)].n
            n == IF end > start THEN end - start ELSE 0
        IN  /\ res.kind = "Ptr"
            /\ res.items = [i \in 1..n |-> Number(start + i - 1)]

C8_Witness ==
    /\ op = "_Range" /\ args = <<IntV(2), IntV(5)>>
    /\ res.items = <<Number(2), Number(3), Number(4)>>

\* C9: extend(deep, dest, sources...) returns the mapping whose keys are those
\* of dest and of all sources, each key holding the value of the last source
\* that has it, or dest's value when no source has it, and returns the same
\* for deep = true and deep = false.  The contents of dest and of the sources
\* are those they have when extend is called.
C9_ExtendMergesLastWins ==
    op = "extend" =>
        LET m == args[2].ref
            on == [i \in 1..(Len(args) - 2) |-> args[i + 2].ref]
            keys == DOMAIN before[m] \cup UNION {DOMAIN before[on[i]] : i \in DOMAIN on}
            having(k) == {i \in DOMAIN on : k \in DOMAIN before[on[i]]}
        IN  /\ res = MapV(m)
            /\ DOMAIN heap[m] = keys
            /\ \A k \in keys :
                 heap[m][k] = IF having(k) = {} THEN before[m][k]
                              ELSE before[on[MaxOf(having(k))]][k]
            /\ extend(TRUE, m, on, before) = extend(FALSE, m, on, before)

\* C10: after any sequence of calls every mapping and array passed as an
\* argument holds what it held before the call, extend's dest included.
C10_ArgumentsUnchanged == heap = before

MinOf(S) == CHOOSE i \in S : \A j \in S : i <= j

\* The string forms of the non-nil arguments, in order.
Forms == [i \in DOMAIN SelectSeq(args, LAMBDA v : v # Nil) |->
            ObjString(SelectSeq(args, LAMBDA v : v # Nil)[i])]

\* The strings of a sequence one after another, sep between two of them.
RECURSIVE Joined(_, _)
Joined(strs, sep) ==
    IF strs = <<>> THEN <<>>
    ELSE IF Len(strs) = 1 THEN strs[1]
    ELSE strs[1] \o sep \o Joined(Tail(strs), sep)

\* str from its first to its last byte that is not white space.
Stripped(str) ==
    LET solid == {i \in 1..Len(str) : ~IsSpace(str[i])}
    IN  IF solid = {} THEN <<>> ELSE SubSeq(str, MinOf(solid), MaxOf(solid))

\* C11 as stated: s returns the string forms of its non-nil arguments with one
\* space between consecutive ones, and the empty string when that text has at
\* most one character.
C11_JoinedWithSpaces ==
    op = "s" =>
        LET text == Joined(Forms, <<32>>)
        IN  res = StringV(IF Len(text) <= 1 THEN <<>> ELSE text)

\* C11 amended: s returns one space followed by the string forms of its
\* non-nil arguments put together with nothing between them, white space at
\* both ends of that text removed, and the empty string when that text has at
\* most one byte.
C11_SpaceThenConcatenation ==
    op = "s" =>
        LET text == Joined(Forms, <<>>)
        IN  res = StringV(IF Len(text) <= 1 THEN <<>> ELSE <<32>> \o Stripped(text))

C11_Witness ==
    /\ op = "s" /\ args = <<StringV(<<97>>), Nil, StringV(<<98>>)>>
    /\ res = StringV(<<32, 97, 98>>)

\* C12 as stated: inc of an integer n is n + 1, of a float f is trunc(f) + 1
\* with trunc rounding toward zero (so 1 for -0.5), and 0 for any other kind.
C12_IncTruncThenAdd ==
    op = "inc" =>
        IF IsInt(args[1]) THEN res = IntV(args[1].n + 1)
        ELSE IF IsFloat(args[1])
             THEN args[1].f.cls = "fin" => res = IntV(TruncInt(args[1].f) + 1)
        ELSE res = IntV(0)

\* C12 amended: inc of an integer n is n + 1, of a finite float f is
\* trunc(f + 1) with trunc rounding toward zero (so 0 for -0.5), and 0 for any
\* other kind.  An integer is a value of one of the signed kinds.
C12_IncAddThenTrunc ==
    op = "inc" =>
        IF IsInt(args[1]) THEN res = IntV(args[1].n + 1)
        ELSE IF IsFloat(args[1])
             THEN args[1].f.cls = "fin" =>
                    LET t == Signed(args[1].f) + args[1].f.den
                        d == args[1].f.den
                    IN  res = IntV(IF t >= 0 THEN t \div d ELSE -((-t) \div d))
        ELSE res = IntV(0)

C12_Witness == op = "inc" /\ args = <<FloatV(FNeg(Half))>> /\ res = IntV(0)

\* C13: when tryindex reaches its reflective fallback (the receiver is
\* neither an Array with an integer key nor an Object) it returns Nil, without
\* a panic, when the receiver is not an indexable sequence, the key is not an
\* integer, or the key is negative or at least the length; otherwise it
\* returns the element at that index.
C13_FallbackTotal ==
    (/\ op = "tryindex"
     /\ ~(args[1].kind = "Ptr" /\ args[2].kind = "Int")
     /\ ~IsObject(args[1])) =>
        LET obj == args[1]
            key == args[2]
            inside == /\ obj.kind = "Slice"
                      /\ IsInt(key)
                      /\ 0 <= key.n /\ key.n < Len(before[obj.ref])
        IN  res = IF inside THEN before[obj.ref][key.n + 1] ELSE Nil

\* C14: sub takes its operands in reversed order: sub(a, b) of two integers is
\* b - a, sub(a) of one integer is 0 - a, and sub(a, b) is a - b only when
\* a = b.
C14_SubReversed ==
    /\ (op = "sub" /\ Len(args) = 2 /\ IsInt(args[1]) /\ IsInt(args[2])) =>
         /\ res = IntV(args[2].n - args[1].n)
         /\ res = IntV(args[1].n - args[2].n) <=> args[1].n = args[2].n
    /\ (op = "sub" /\ Len(args) = 1 /\ IsInt(args[1])) => res = IntV(0 - args[1].n)

C14_Witness == op = "sub" /\ args = <<IntV(1), IntV(5)>> /\ res = IntV(4)

=============================================================================
